---- MODULE Spec2Model ----
(***************************************************************************)
(* The AOF service of healthcare-app-v3: NATS message handlers that keep   *)
(* per-session JSON documents in Redis (services/aof-service/src/service.py)*)
(* A handler is a coroutine; it is suspended at `await redis.get`,         *)
(* `await redis.set` and `await nc.publish/flush`, and other handlers run  *)
(* in between.  The bus client runs the callback of one subscription for one *)
(* message at a time, so an instance runs at most one handler per subject; *)
(* the handlers of different subjects and of different instances           *)
(* interleave.                                                             *)
(***************************************************************************)
EXTENDS Integers, Sequences, FiniteSets, TLC

\* ---------------------------------------------------------------- bounds
MaxMsgs == 2        \* messages delivered in one behaviour
MaxRetries == 2     \* failed connection attempts counted in one behaviour
MaxLifeMsgs == 1    \* messages delivered in one life of a process

\* ------------------------------------------------------------- constants
RetryInterval == 5  \* asyncio.sleep(5) of NATSClient.connect

\* ---------------------------------------------------------------- values
Instances == {"i1", "i2"}
Commands == {"start", "stop", "pause", "resume"}
Kinds == {"transcription"} \cup Commands
Sessions == {"s1", "s1:aof-service"}
Transcripts == {"a", "b"}

\* the subject each callback is subscribed to, and its queue group
Subject(kind) ==
  IF kind = "transcription" THEN "transcription.word.transcribed"
  ELSE "command.transcribe." \o kind
Queue(kind) ==
  IF kind = "transcription" THEN "aof-transcription-queue"
  ELSE "aof-command-" \o kind \o "-queue"
Subjects == {Subject(k) : k \in Kinds}

Null == "null"      \* Python None, JSON null
Nil == [nil |-> TRUE]   \* Redis reply for a key that holds no value

\* f"{session_id}:aof-service"
unique_session_id(session_id) == session_id \o ":aof-service"

Keys == Sessions \cup {unique_session_id(s) : s \in Sessions}

\* ------------------------------------------------------- JSON documents
\* A dict is a record of all the fields the service uses plus `keys`, the
\* set of fields present; a field that is not present holds its default.
EmptyDoc ==
  [keys |-> {}, sessionId |-> Null, patientDID |-> Null, clinicianDID |-> Null,
   clinicName |-> Null, startTime |-> 0, audioConfig |-> Null,
   transcriptPreferences |-> Null, control |-> <<>>, endTime |-> 0,
   transcriptions |-> <<>>]

EmptyObj ==
  [keys |-> {}, sessionId |-> Null, transcript |-> Null, reason |-> Null,
   patientDID |-> Null, clinicianDID |-> Null, clinicName |-> Null,
   startTime |-> 0, audioConfig |-> Null, transcriptPreferences |-> Null]

\* dict.get(key, default)
dict_get(d, key, default) == IF key \in d.keys THEN d[key] ELSE default

\* d[key] = value
dict_set(d, key, value) == [d EXCEPT !.keys = @ \cup {key}, ![key] = value]

\* json.dumps(state): the string Redis stores
json_dumps(state) == [json |-> state]

\* json.loads(text)
json_loads(text) == text.json

\* ------------------------------------------------------------- messages
\* msg.data: bytes that are no JSON, a JSON array, or a JSON object.
ObjSession(s) == [EmptyObj EXCEPT !.keys = {"sessionId"}, !.sessionId = s]

TranscriptionObj(s, t) ==
  [ObjSession(s) EXCEPT !.keys = @ \cup {"transcript"}, !.transcript = t]

StartObj(s) ==
  [ObjSession(s) EXCEPT
     !.keys = @ \cup {"patientDID", "clinicianDID", "clinicName", "startTime",
                      "audioConfig", "transcriptPreferences", "reason"},
     !.patientDID = "p1", !.clinicianDID = "c1", !.clinicName = "n1",
     !.startTime = 0, !.audioConfig = "cfg", !.transcriptPreferences = "prefs",
     !.reason = "r"]

Malformed ==
  { [text |-> "invalid", obj |-> EmptyObj],
    [text |-> "array", obj |-> EmptyObj],
    [text |-> "object", obj |-> EmptyObj],
    [text |-> "object", obj |-> ObjSession("")] }

WellFormed(kind) ==
  { [text |-> "object", obj |-> o] :
      o \in IF kind = "transcription"
              THEN {TranscriptionObj(s, t) : s \in Sessions, t \in Transcripts}
            ELSE IF kind = "start"
              THEN {StartObj(s) : s \in Sessions} \cup {ObjSession(s) : s \in Sessions}
            ELSE {ObjSession(s) : s \in Sessions} }

Messages(kind) == Malformed \cup WellFormed(kind)

\* ---------------------------------------------------------------- state
VARIABLES
  store,          \* Redis: key -> Nil or the JSON text stored
  published,      \* messages sent on aof.word.highlighted, in order
  clock,          \* datetime.now() of each instance
  running,        \* the handlers that are suspended at an await, each with
                  \* its instance, subject, position and local variables
  ended,          \* how many callbacks ended, by the way they ended
  escaped,        \* an exception left a callback
  handledC,       \* session -> actions of the commands whose save succeeded
  handledT,       \* session -> transcripts of the events whose save succeeded
  main,           \* instance -> where run.py's main program stands
  redis_client,   \* instance -> self.redis_client: "None", "open", "closed"
  nc,             \* instance -> the bus client: its state, and the locals of
                  \* NATSClient.connect
  subs,           \* the subscriptions the bus holds
  bus,            \* the bus: reachable or not, the messages published on the
                  \* subscribed subjects and their deliveries not yet handled
  flask_thread    \* instance -> "running" or "ended"

life == <<main, redis_client, nc, subs, bus, flask_thread>>

vars == <<store, published, clock, running, ended, escaped, handledC, handledT,
          main, redis_client, nc, subs, bus, flask_thread>>

\* nc.subscribe(subject, queue, cb=...): the n-th subscription of a client
Subscription(i, n, kind) ==
  [inst |-> i, sid |-> n, subject |-> Subject(kind), queue |-> Queue(kind),
   cb |-> kind]

\* subscribe_to_events: the subscriptions in the order they are made
SubscribeOrder == <<"transcription", "start", "stop", "pause", "resume">>

\* (variant, not the code: every instance names a queue group of its own)
subscribe_to_events_own_queue(i) ==
  {[Subscription(i, n, SubscribeOrder[n]) EXCEPT !.queue = @ \o "-" \o i] :
     n \in 1..Len(SubscribeOrder)}

subscribe_to_events(i) ==
  {Subscription(i, n, SubscribeOrder[n]) : n \in 1..Len(SubscribeOrder)}

\* a service that has started: both instances connected and subscribed,
\* their main programs in AOFService.run
Started ==
  /\ main = [i \in Instances |-> "run"]
  /\ redis_client = [i \in Instances |-> "open"]
  /\ nc = [i \in Instances |-> [state |-> "connected", retries |-> 0, slept |-> 0]]
  /\ subs = UNION {subscribe_to_events(i) : i \in Instances}
  /\ bus = [up |-> TRUE, sent |-> 0, pending |-> {}]
  /\ flask_thread = [i \in Instances |-> "running"]

Init ==
  /\ store = [k \in Keys |-> Nil]
  /\ published = <<>>
  /\ clock = [i \in Instances |-> 1]
  /\ running = {}
  /\ ended = [error |-> 0, discarded |-> 0, processed |-> 0]
  /\ escaped = FALSE
  /\ handledC = [s \in Sessions |-> <<>>]
  /\ handledT = [s \in Sessions |-> <<>>]
  /\ Started

\* messages handed to a callback so far
Delivered ==
  ended.error + ended.discarded + ended.processed + Cardinality(running)

\* instance i is running its callback for `kind`
Busy(i, kind) == \E h \in running : h.inst = i /\ h.kind = kind

\* ------------------------------------------------------ the store client
\* A call either returns a value or raises; `raised` is the exception leaving
\* the function.  `fails` is the Redis call (or the JSON decoding) failing.
Returned(value) == [raised |-> FALSE, value |-> value]
Raised == [raised |-> TRUE, value |-> Null]

\* (variant, not the code: the error of the read is not caught)
retrieve_session_state_raises(reply, fails) ==
  IF fails THEN Raised
  ELSE IF reply # Nil THEN Returned(json_loads(reply)) ELSE Returned(EmptyDoc)

retrieve_session_state(reply, fails) ==
  IF fails THEN Returned(EmptyDoc)
  ELSE IF reply # Nil THEN Returned(json_loads(reply)) ELSE Returned(EmptyDoc)

\* (variant, not the code: SET NX, a save that never overwrites)
save_session_state_nx(st, session_id, state, fails) ==
  IF fails \/ st[session_id] # Nil THEN Returned(st)
  ELSE Returned([st EXCEPT ![session_id] = json_dumps(state)])

\* (variant, not the code: the error of the save is not caught)
save_session_state_raises(st, session_id, state, fails) ==
  IF fails THEN Raised
  ELSE Returned([st EXCEPT ![session_id] = json_dumps(state)])

save_session_state(st, session_id, state, fails) ==
  IF fails THEN Returned(st)
  ELSE Returned([st EXCEPT ![session_id] = json_dumps(state)])

\* ------------------------------------------------------------ mutations
\* (variant, not the code: `session_id is None`)
IsNone(session_id) == session_id = Null

\* `not session_id`
Falsy(session_id) == session_id \in {Null, ""}

\* the session_initiation dict of a start command
session_initiation(d, ts) ==
  [sessionId |-> dict_get(d, "sessionId", Null),
   patientDID |-> dict_get(d, "patientDID", Null),
   clinicianDID |-> dict_get(d, "clinicianDID", Null),
   clinicName |-> dict_get(d, "clinicName", Null),
   startTime |-> dict_get(d, "startTime", ts),
   audioConfig |-> dict_get(d, "audioConfig", "{}"),
   transcriptPreferences |-> dict_get(d, "transcriptPreferences", "{}")]

\* session_state.update(session_initiation)
dict_update(state, upd) ==
  [f \in DOMAIN state |->
     IF f = "keys" THEN state.keys \cup DOMAIN upd
     ELSE IF f \in DOMAIN upd THEN upd[f] ELSE state[f]]

\* the session_control dict
session_control(d, command_type, ts) ==
  [sessionId |-> dict_get(d, "sessionId", Null), action |-> command_type,
   timestamp |-> ts, reason |-> dict_get(d, "reason", Null)]

\* (variant, not the code: the new ControlEvent put first; a start that begins `control`
\* afresh; a command equal to the last one recorded is not recorded again)
process_command_prepend(state, d, command_type, ts) ==
  LET s1 == IF command_type = "start"
              THEN dict_update(state, session_initiation(d, ts)) ELSE state
      s2 == dict_set(s1, "control",
                     <<session_control(d, command_type, ts)>>
                       \o dict_get(s1, "control", <<>>))
  IN IF command_type = "stop" THEN dict_set(s2, "endTime", ts) ELSE s2

process_command_start_resets(state, d, command_type, ts) ==
  LET s1 == IF command_type = "start"
              THEN dict_update(state, session_initiation(d, ts)) ELSE state
      s2 == dict_set(s1, "control",
                     Append(IF command_type = "start" THEN <<>>
                            ELSE dict_get(s1, "control", <<>>),
                            session_control(d, command_type, ts)))
  IN IF command_type = "stop" THEN dict_set(s2, "endTime", ts) ELSE s2

process_command_dedup(state, d, command_type, ts) ==
  LET old == dict_get(state, "control", <<>>)
      s1 == IF command_type = "start"
              THEN dict_update(state, session_initiation(d, ts)) ELSE state
      s2 == dict_set(s1, "control",
                     IF old # <<>> /\ old[Len(old)].action = command_type
                       THEN old
                       ELSE Append(old, session_control(d, command_type, ts)))
  IN IF command_type = "stop" THEN dict_set(s2, "endTime", ts) ELSE s2

\* (variants, not the code: a pause ends the session too; a start puts the
\* initiation fields in place of the document)
process_command_pause_ends(state, d, command_type, ts) ==
  LET s1 == IF command_type = "start"
              THEN dict_update(state, session_initiation(d, ts)) ELSE state
      s2 == dict_set(s1, "control",
                     Append(dict_get(s1, "control", <<>>),
                            session_control(d, command_type, ts)))
  IN IF command_type \in {"stop", "pause"} THEN dict_set(s2, "endTime", ts) ELSE s2

process_command_start_replaces(state, d, command_type, ts) ==
  LET s1 == IF command_type = "start"
              THEN dict_update(EmptyDoc, session_initiation(d, ts)) ELSE state
      s2 == dict_set(s1, "control",
                     Append(dict_get(state, "control", <<>>),
                            session_control(d, command_type, ts)))
  IN IF command_type = "stop" THEN dict_set(s2, "endTime", ts) ELSE s2

\* (variant, not the code: a start opens the session again and drops `endTime`)
process_command_start_reopens(state, d, command_type, ts) ==
  LET s0 == IF command_type = "start"
              THEN [state EXCEPT !.keys = @ \ {"endTime"}, !.endTime = 0]
              ELSE state
      s1 == IF command_type = "start"
              THEN dict_update(s0, session_initiation(d, ts)) ELSE s0
      s2 == dict_set(s1, "control",
                     Append(dict_get(s1, "control", <<>>),
                            session_control(d, command_type, ts)))
  IN IF command_type = "stop" THEN dict_set(s2, "endTime", ts) ELSE s2

\* process_command between the load and the save
process_command_mutate(state, d, command_type, ts) ==
  LET s1 == IF command_type = "start"
              THEN dict_update(state, session_initiation(d, ts)) ELSE state
      s2 == dict_set(s1, "control",
                     Append(dict_get(s1, "control", <<>>),
                            session_control(d, command_type, ts)))
  IN IF command_type = "stop" THEN dict_set(s2, "endTime", ts) ELSE s2

\* (variant, not the code: the new transcript put first; the list started afresh)
process_transcription_prepend(state, transcript) ==
  dict_set(state, "transcriptions",
           <<transcript>> \o dict_get(state, "transcriptions", <<>>))

process_transcription_reset(state, transcript) ==
  dict_set(state, "transcriptions", <<transcript>>)

\* process_transcription between the load and the save
process_transcription_mutate(state, transcript) ==
  dict_set(state, "transcriptions",
           Append(dict_get(state, "transcriptions", <<>>), transcript))

\* the `except Exception` clause around each handler body: TRUE when the
\* exception is caught there (and logged), FALSE when it leaves the callback
Reraise == FALSE   \* (variant, not the code: the clause re-raises)
process_command_except == TRUE
process_transcription_except == TRUE

\* (variant, not the code: the command key without the suffix)
raw_key(h) == h.data.sessionId

\* the key a handler loads and saves
command_key(h) == unique_session_id(h.data.sessionId)
transcription_key(h) == h.data.sessionId
KeyOf(h) == IF h.kind \in Commands THEN command_key(h) ELSE transcription_key(h)

\* datetime.now(): each call on an instance returns a later time than the
\* call before it on that instance
Now(i) == clock[i]
Tick(i) == [clock EXCEPT ![i] = @ + 1]

\* a handler that has parsed its message and awaits the load (`started`
\* records where the main program stood then)
Handler(i, kind, d, ts) ==
  [inst |-> i, kind |-> kind, pc |-> "get", data |-> d, timestamp |-> ts,
   session_state |-> EmptyDoc, loaded |-> EmptyDoc, getOk |-> TRUE,
   started |-> main[i]]

\* a handler ends in its `except Exception` clause
Except(kind) ==
  /\ escaped' = (escaped \/ ~(IF kind \in Commands THEN process_command_except
                                ELSE process_transcription_except))
  /\ ended' = [ended EXCEPT !.error = @ + 1]

\* -------------------------------------------------------------- handlers
\* The bus hands `msg` to instance i's callback for `command_type`;
\* process_command runs up to `await self.retrieve_session_state`.
process_command(i, command_type, msg) ==
  /\ ~Busy(i, command_type)
  /\ Delivered < MaxMsgs
  /\ IF msg.text # "object"
       THEN \* json.loads raises, or data.get on a value that is no dict
            /\ Except(command_type)
            /\ UNCHANGED <<clock, running>>
       ELSE /\ clock' = Tick(i)
            /\ IF Falsy(dict_get(msg.obj, "sessionId", Null))
                 THEN /\ ended' = [ended EXCEPT !.discarded = @ + 1]
                      /\ UNCHANGED running
                 ELSE /\ running' = running \cup
                            {Handler(i, command_type, msg.obj, Now(i))}
                      /\ UNCHANGED ended
            /\ UNCHANGED escaped
  /\ UNCHANGED <<store, published, handledC, handledT>>
  /\ UNCHANGED <<main, redis_client, nc, subs, flask_thread>>

\* process_transcription up to `await self.retrieve_session_state`.
process_transcription(i, msg) ==
  /\ ~Busy(i, "transcription")
  /\ Delivered < MaxMsgs
  /\ IF msg.text # "object"
       THEN /\ Except("transcription")
            /\ UNCHANGED running
       ELSE /\ IF Falsy(dict_get(msg.obj, "sessionId", Null))
                 THEN /\ ended' = [ended EXCEPT !.discarded = @ + 1]
                      /\ UNCHANGED running
                 ELSE /\ running' = running \cup
                            {Handler(i, "transcription", msg.obj, 0)}
                      /\ UNCHANGED ended
            /\ UNCHANGED escaped
  /\ UNCHANGED <<store, published, clock, handledC, handledT>>
  /\ UNCHANGED <<main, redis_client, nc, subs, flask_thread>>

\* retrieve_session_state ends and the handler runs on to
\* `await self.save_session_state`.
Get(h, fails) ==
  /\ h \in running
  /\ h.pc = "get"
  /\ LET r == retrieve_session_state(store[KeyOf(h)], fails) IN
       IF r.raised
         THEN /\ Except(h.kind)
              /\ running' = running \ {h}
         ELSE /\ running' = (running \ {h}) \cup
                   {[h EXCEPT
                       !.pc = "set",
                       !.loaded = r.value,
                       !.getOk = ~fails,
                       !.session_state =
                          IF h.kind \in Commands
                            THEN process_command_mutate(
                                   r.value, h.data, h.kind, h.timestamp)
                            ELSE process_transcription_mutate(
                                   r.value, dict_get(h.data, "transcript", Null))]}
              /\ UNCHANGED <<ended, escaped>>
  /\ UNCHANGED <<store, published, clock, handledC, handledT>>
  /\ UNCHANGED life

\* save_session_state ends; a command handler ends with it, a transcription
\* handler goes on to `await self.publish_highlighted_word`.
Set(h, fails) ==
  /\ h \in running
  /\ h.pc = "set"
  /\ LET r == save_session_state(store, KeyOf(h), h.session_state, fails) IN
       IF r.raised
         THEN /\ Except(h.kind)
              /\ running' = running \ {h}
              /\ UNCHANGED <<store, handledC, handledT>>
         ELSE /\ store' = r.value
              /\ UNCHANGED escaped
              /\ IF h.kind \in Commands
                   THEN /\ handledC' =
                             IF fails THEN handledC
                             ELSE [handledC EXCEPT ![h.data.sessionId] =
                                     Append(@, h.kind)]
                        /\ ended' = [ended EXCEPT !.processed = @ + 1]
                        /\ running' = running \ {h}
                        /\ UNCHANGED handledT
                   ELSE /\ handledT' =
                             IF fails THEN handledT
                             ELSE [handledT EXCEPT ![h.data.sessionId] =
                                     Append(@, dict_get(h.data, "transcript", Null))]
                        /\ running' = (running \ {h}) \cup
                                        {[h EXCEPT !.pc = "publish"]}
                        /\ UNCHANGED <<handledC, ended>>
  /\ UNCHANGED <<published, clock>>
  /\ UNCHANGED life

\* publish_highlighted_word: nc.publish then nc.flush; either may raise and
\* the error is logged.  A message whose flush raised has been sent.
PublishOutcomes == {"ok", "publish_raises", "flush_raises"}

\* (variant, not the code: the two arguments taken in the other order)
publish_highlighted_word_swapped(pub, session_id, highlighted_word, ts, outcome) ==
  IF outcome = "publish_raises" THEN Returned(pub)
  ELSE Returned(Append(pub, [sessionId |-> highlighted_word,
                             highlightedWord |-> session_id,
                             timestamp |-> ts]))

\* (variant, not the code: the error of the publish is not caught)
publish_highlighted_word_raises(pub, session_id, highlighted_word, ts, outcome) ==
  IF outcome = "publish_raises" THEN Raised
  ELSE IF outcome = "flush_raises"
    THEN [raised |-> TRUE,
          value |-> Append(pub, [sessionId |-> session_id,
                                 highlightedWord |-> highlighted_word,
                                 timestamp |-> ts])]
  ELSE Returned(Append(pub, [sessionId |-> session_id,
                             highlightedWord |-> highlighted_word,
                             timestamp |-> ts]))

publish_highlighted_word(pub, session_id, highlighted_word, ts, outcome) ==
  IF outcome = "publish_raises" THEN Returned(pub)
  ELSE Returned(Append(pub, [sessionId |-> session_id,
                             highlightedWord |-> highlighted_word,
                             timestamp |-> ts]))

Publish(h, outcome) ==
  /\ h \in running
  /\ h.pc = "publish"
  /\ clock' = Tick(h.inst)
  /\ LET r == publish_highlighted_word(
                published, h.data.sessionId,
                dict_get(h.data, "transcript", Null), Now(h.inst), outcome) IN
       IF r.raised
         THEN /\ Except(h.kind)
              /\ UNCHANGED published
         ELSE /\ published' = r.value
              /\ ended' = [ended EXCEPT !.processed = @ + 1]
              /\ UNCHANGED escaped
  /\ running' = running \ {h}
  /\ UNCHANGED <<store, handledC, handledT>>
  /\ UNCHANGED life

\* ------------------------------------------------------- specifications
DeliverCommand ==
  \E i \in Instances, k \in Commands : \E msg \in Messages(k) :
    process_command(i, k, msg) /\ UNCHANGED bus

DeliverTranscription ==
  \E i \in Instances : \E msg \in Messages("transcription") :
    process_transcription(i, msg) /\ UNCHANGED bus

GetReturns == \E h \in running : Get(h, FALSE)
GetFails == \E h \in running : Get(h, TRUE)
SetReturns == \E h \in running : Set(h, FALSE)
SetFails == \E h \in running : Set(h, TRUE)
PublishEnds == \E h \in running, o \in PublishOutcomes : Publish(h, o)

Next ==
  \/ DeliverCommand
  \/ DeliverTranscription
  \/ GetReturns
  \/ GetFails
  \/ SetReturns
  \/ SetFails
  \/ PublishEnds

\* Any number of instances, handlers interleaved, every I/O call may fail.
Spec == Init /\ [][Next]_vars

\* Handlers interleaved, and the store answers every get and set.
NextNoFault ==
  \/ DeliverCommand
  \/ DeliverTranscription
  \/ GetReturns
  \/ SetReturns
  \/ PublishEnds

SpecNoFault == Init /\ [][NextNoFault]_vars

\* One handler at a time, and the store answers every get and set.
Quiet == running = {}

SerialDeliverCommand == Quiet /\ DeliverCommand
SerialDeliverTranscription == Quiet /\ DeliverTranscription

NextSerial ==
  \/ SerialDeliverCommand
  \/ SerialDeliverTranscription
  \/ GetReturns
  \/ SetReturns
  \/ PublishEnds

SpecSerial == Init /\ [][NextSerial]_vars

\* One instance handles every message (its handlers of different subjects
\* interleave), and the store answers every get and set.
OneDeliverCommand ==
  \E k \in Commands : \E msg \in Messages(k) :
    process_command("i1", k, msg) /\ UNCHANGED bus

OneDeliverTranscription ==
  \E msg \in Messages("transcription") :
    process_transcription("i1", msg) /\ UNCHANGED bus

NextOne ==
  \/ OneDeliverCommand
  \/ OneDeliverTranscription
  \/ GetReturns
  \/ SetReturns
  \/ PublishEnds

SpecOne == Init /\ [][NextOne]_vars

\* ------------------------------------------------------------ life cycle
\* run.py: the main program starts the service (AOFService.start), stays in
\* AOFService.run until KeyboardInterrupt, shuts the service down and joins
\* the Flask thread.  The event loop, and with it every handler, runs only
\* inside run_until_complete.
Launched == {"i1"}

InitLife ==
  /\ store = [k \in Keys |-> Nil]
  /\ published = <<>>
  /\ clock = [i \in Instances |-> 1]
  /\ running = {}
  /\ ended = [error |-> 0, discarded |-> 0, processed |-> 0]
  /\ escaped = FALSE
  /\ handledC = [s \in Sessions |-> <<>>]
  /\ handledT = [s \in Sessions |-> <<>>]
  /\ main = [i \in Instances |-> "start"]
  /\ redis_client = [i \in Instances |-> "None"]
  /\ nc = [i \in Instances |-> [state |-> "disconnected", retries |-> 0, slept |-> 0]]
  /\ subs = {}
  /\ bus \in {[up |-> u, sent |-> 0, pending |-> {}] : u \in BOOLEAN}
  /\ flask_thread = [i \in Instances |-> "running"]

data == <<store, published, clock, running, ended, escaped, handledC, handledT>>

\* the positions of the main program at which the event loop runs
LoopRuns(i) ==
  main[i] \in {"start", "connect", "sleep", "subscribe", "run",
               "shutdown", "draining"}

\* the positions inside the `try` of run.py
InTry(i) == main[i] \in {"start", "connect", "sleep", "subscribe", "run"}

\* start(): self.redis_client = await aioredis.from_url(...); an error of it
\* leaves start() and the `try` (only KeyboardInterrupt is caught there)
from_url(i, fails) ==
  /\ main[i] = "start"
  /\ IF fails
       THEN /\ main' = [main EXCEPT ![i] = "finally"]
            /\ UNCHANGED redis_client
       ELSE /\ main' = [main EXCEPT ![i] = "connect"]
            /\ redis_client' = [redis_client EXCEPT ![i] = "open"]
  /\ UNCHANGED <<nc, subs, bus, flask_thread>>
  /\ UNCHANGED data

\* (variant, not the code: the loop gives up after the first failure)
connect_gives_up(retries) ==
  [raised |-> TRUE, retries |-> retries + 1, sleep |-> RetryInterval]

\* the `except Exception` clause of NATSClient.connect
connect_except(retries) ==
  [raised |-> FALSE, retries |-> retries + 1, sleep |-> RetryInterval]

\* one turn of the `while True` of NATSClient.connect: nc.connect succeeds
\* when the bus is reachable and connect returns; otherwise the except
\* clause counts the attempt and sleeps
connect(i) ==
  /\ main[i] = "connect"
  /\ IF bus.up
       THEN /\ nc' = [nc EXCEPT ![i].state = "connected"]
            /\ main' = [main EXCEPT ![i] = "subscribe"]
       ELSE /\ nc[i].retries < MaxRetries
            /\ LET r == connect_except(nc[i].retries) IN
                 /\ nc' = [nc EXCEPT ![i].retries = r.retries,
                                     ![i].slept = r.sleep]
                 /\ main' = [main EXCEPT
                               ![i] = IF r.raised THEN "finally" ELSE "sleep"]
  /\ UNCHANGED <<redis_client, subs, bus, flask_thread>>
  /\ UNCHANGED data

\* await asyncio.sleep(5) ends
sleep(i) ==
  /\ main[i] = "sleep"
  /\ main' = [main EXCEPT ![i] = "connect"]
  /\ UNCHANGED <<redis_client, nc, subs, bus, flask_thread>>
  /\ UNCHANGED data

\* the subscriptions instance i holds
SubsOf(i) == {sub \in subs : sub.inst = i}

\* subscribe_to_events: the next `await nc.subscribe(...)`
subscribe(i) ==
  /\ main[i] = "subscribe"
  /\ LET n == Cardinality(SubsOf(i)) + 1 IN
       /\ subs' = subs \cup {sub \in subscribe_to_events(i) : sub.sid = n}
       /\ main' = [main EXCEPT
                     ![i] = IF n >= Len(SubscribeOrder) THEN "run" ELSE "subscribe"]
  /\ UNCHANGED <<redis_client, nc, bus, flask_thread>>
  /\ UNCHANGED data

\* (variant, not the code: the callback subscribes again)
reconnected_cb_resubscribes(s, i) ==
  s \cup {[sub EXCEPT !.sid = @ + Len(SubscribeOrder)] :
            sub \in {x \in s : x.inst = i}}

\* disconnected_cb and reconnected_cb only log
disconnected_cb(s, i) == s
reconnected_cb(s, i) == s

\* the bus becomes unreachable, or reachable again
bus_toggle ==
  /\ bus' = [bus EXCEPT !.up = ~@]
  /\ UNCHANGED <<main, redis_client, nc, subs, flask_thread>>
  /\ UNCHANGED data

\* the client of a connected instance notices the loss and reconnects by
\* itself (max_reconnect_attempts = -1)
disconnected(i) ==
  /\ nc[i].state = "connected"
  /\ ~bus.up
  /\ nc' = [nc EXCEPT ![i].state = "reconnecting"]
  /\ subs' = disconnected_cb(subs, i)
  /\ UNCHANGED <<main, redis_client, bus, flask_thread>>
  /\ UNCHANGED data

reconnected(i) ==
  /\ nc[i].state = "reconnecting"
  /\ bus.up
  /\ nc' = [nc EXCEPT ![i].state = "connected"]
  /\ subs' = reconnected_cb(subs, i)
  /\ UNCHANGED <<main, redis_client, bus, flask_thread>>
  /\ UNCHANGED data

\* shutdown(): `await self.nats_client.nc.drain()` begins.  A client that
\* is not connected raises, which is logged, and shutdown() returns; a
\* connected one stops its subscriptions and waits for the callbacks that run
drain(i) ==
  IF nc[i].state = "connected"
    THEN /\ nc' = [nc EXCEPT ![i].state = "draining"]
         /\ subs' = subs \ SubsOf(i)
         /\ main' = [main EXCEPT ![i] = "draining"]
    ELSE /\ main' = [main EXCEPT ![i] = "finally"]
         /\ UNCHANGED <<nc, subs>>

\* KeyboardInterrupt leaves run_until_complete(start()) or (run()); the
\* except clause calls shutdown(), which runs to its first await:
\* `if self.redis_client: await self.redis_client.close()`, else the drain
KeyboardInterrupt(i) ==
  /\ InTry(i)
  /\ IF redis_client[i] = "None"
       THEN drain(i)
       ELSE /\ main' = [main EXCEPT ![i] = "shutdown"]
            /\ UNCHANGED <<nc, subs>>
  /\ UNCHANGED <<redis_client, bus, flask_thread>>
  /\ UNCHANGED data

\* redis_client.close() ends: an error of it leaves shutdown() before the
\* drain; otherwise the client is closed and the drain begins
redis_close(i, fails) ==
  /\ main[i] = "shutdown"
  /\ IF fails
       THEN /\ main' = [main EXCEPT ![i] = "finally"]
            /\ UNCHANGED <<redis_client, nc, subs>>
       ELSE /\ redis_client' = [redis_client EXCEPT ![i] = "closed"]
            /\ drain(i)
  /\ UNCHANGED <<bus, flask_thread>>
  /\ UNCHANGED data

\* the drain ends when no callback of the instance runs any more; the
\* connection is closed and shutdown() returns
drained(i) ==
  /\ main[i] = "draining"
  /\ \A h \in running : h.inst # i
  /\ nc' = [nc EXCEPT ![i].state = "closed"]
  /\ main' = [main EXCEPT ![i] = "finally"]
  /\ UNCHANGED <<redis_client, subs, bus, flask_thread>>
  /\ UNCHANGED data

\* app.run() of the Flask thread returns or raises (it serves until then)
run_flask_app_ends(i) ==
  /\ flask_thread[i] = "running"
  /\ flask_thread' = [flask_thread EXCEPT ![i] = "ended"]
  /\ UNCHANGED <<main, redis_client, nc, subs, bus>>
  /\ UNCHANGED data

\* flask_thread.join() returns when the thread has ended
join(thread) == thread = "ended"

\* finally: flask_thread.join(); loop.stop(); loop.close(); "stopped" logged
finally(i) ==
  /\ main[i] = "finally"
  /\ join(flask_thread[i])
  /\ main' = [main EXCEPT ![i] = "stopped"]
  /\ UNCHANGED <<redis_client, nc, subs, bus, flask_thread>>
  /\ UNCHANGED data

\* the messages of the life-cycle specifications
LifeMessages(kind) ==
  { [text |-> "object",
     obj |-> IF kind = "transcription" THEN TranscriptionObj("s1", "a")
             ELSE ObjSession("s1")] }

\* the bus hands a message to a callback of a subscription it holds, while
\* the client is connected and its event loop runs
Accepts(sub) ==
  /\ sub \in subs
  /\ Delivered < MaxLifeMsgs
  /\ bus.up
  /\ nc[sub.inst].state = "connected"
  /\ LoopRuns(sub.inst)

LifeDeliverCommand ==
  \E sub \in subs : \E msg \in LifeMessages(sub.cb) :
    /\ sub.cb \in Commands
    /\ Accepts(sub)
    /\ process_command(sub.inst, sub.cb, msg)
    /\ UNCHANGED bus

LifeDeliverTranscription ==
  \E sub \in subs : \E msg \in LifeMessages(sub.cb) :
    /\ sub.cb = "transcription"
    /\ Accepts(sub)
    /\ process_transcription(sub.inst, msg)
    /\ UNCHANGED bus

LifeGet == \E h \in running, fails \in BOOLEAN : LoopRuns(h.inst) /\ Get(h, fails)
LifeSet == \E h \in running, fails \in BOOLEAN : LoopRuns(h.inst) /\ Set(h, fails)
LifePublish ==
  \E h \in running, o \in PublishOutcomes :
    /\ LoopRuns(h.inst)
    /\ (o = "ok") => (nc[h.inst].state \in {"connected", "draining"})
    /\ Publish(h, o)

Start == \E i \in Launched : \E fails \in BOOLEAN : from_url(i, fails)
Connect == \E i \in Launched : connect(i)
Sleep == \E i \in Launched : sleep(i)
Subscribe == \E i \in Launched : subscribe(i)
Disconnected == \E i \in Launched : disconnected(i)
Reconnected == \E i \in Launched : reconnected(i)
Interrupt == \E i \in Launched : KeyboardInterrupt(i)
RedisClose == \E i \in Launched : \E fails \in BOOLEAN : redis_close(i, fails)
Drained == \E i \in Launched : drained(i)
FlaskEnds == \E i \in Launched : run_flask_app_ends(i)
Finally == \E i \in Launched : finally(i)

MainStep ==
  Start \/ Connect \/ Sleep \/ Subscribe \/ RedisClose \/ Drained \/ Finally

NextLife ==
  \/ Start
  \/ Connect
  \/ Sleep
  \/ Subscribe
  \/ bus_toggle
  \/ Disconnected
  \/ Reconnected
  \/ Interrupt
  \/ RedisClose
  \/ Drained
  \/ FlaskEnds
  \/ Finally
  \/ LifeDeliverCommand
  \/ LifeDeliverTranscription
  \/ LifeGet
  \/ LifeSet
  \/ LifePublish

\* One process from its launch to its end; every I/O call may fail.
SpecLife == InitLife /\ [][NextLife]_vars

\* The same, with the event loop running what is ready to run and every
\* awaited I/O call of the service returning or raising in the end.
SpecLifeFair ==
  /\ InitLife
  /\ [][NextLife]_vars
  /\ WF_vars(MainStep)
  /\ WF_vars(LifeGet)
  /\ WF_vars(LifeSet)
  /\ WF_vars(LifePublish)

\* ---------------------------------------------------------------- the bus
\* A message published on a subject goes to one member of every queue group
\* subscribed to the subject (and to every subscriber without a group); the
\* client then runs the callback of that subscription.
SubsOn(subject) == {sub \in subs : sub.subject = subject}

Receivers(subject) ==
  {R \in SUBSET SubsOn(subject) :
     \A q \in {sub.queue : sub \in SubsOn(subject)} :
       LET members == {sub \in SubsOn(subject) : sub.queue = q} IN
         IF q = "" THEN members \subseteq R
         ELSE Cardinality(R \cap members) = 1}

Delivery(id, sub, msg) ==
  [id |-> id, inst |-> sub.inst, subject |-> sub.subject, cb |-> sub.cb,
   msg |-> msg]

\* some publisher sends msg on subject
bus_publish(subject, msg) ==
  /\ bus.sent < MaxMsgs
  /\ \E R \in Receivers(subject) :
       bus' = [bus EXCEPT
                 !.sent = @ + 1,
                 !.pending = @ \cup {Delivery(bus.sent + 1, sub, msg) : sub \in R}]
  /\ UNCHANGED <<main, redis_client, nc, subs, flask_thread>>
  /\ UNCHANGED data

\* the client of d.inst runs the callback of the subscription
bus_deliver(d) ==
  /\ d \in bus.pending
  /\ bus' = [bus EXCEPT !.pending = @ \ {d}]
  /\ IF d.cb \in Commands THEN process_command(d.inst, d.cb, d.msg)
     ELSE process_transcription(d.inst, d.msg)

BusPublish == \E k \in Kinds : \E msg \in LifeMessages(k) : bus_publish(Subject(k), msg)
BusDeliver == \E d \in bus.pending : bus_deliver(d)

NextBus ==
  \/ BusPublish
  \/ BusDeliver
  \/ GetReturns
  \/ SetReturns
  \/ PublishEnds

\* Two started instances that receive what is published on the bus.
SpecBus == Init /\ [][NextBus]_vars

\* ------------------------------------------------------------ properties
\* the document stored under key k ({} when there is none)
DocIn(st, k) == IF st[k] = Nil THEN EmptyDoc ELSE json_loads(st[k])
Doc(k) == DocIn(store, k)
ControlIn(st, k) == dict_get(DocIn(st, k), "control", <<>>)
Control(k) == ControlIn(store, k)
TranscriptionsIn(st, k) == dict_get(DocIn(st, k), "transcriptions", <<>>)
Transcriptions(k) == TranscriptionsIn(store, k)

IsPrefix(a, b) == Len(a) <= Len(b) /\ SubSeq(b, 1, Len(a)) = a

\* C1: with one handler at a time and a store that answers, the
\* `transcriptions` stored under a session id are exactly the transcripts of
\* the transcription events processed for it, in processing order (N events
\* give N entries).
C1_SerialTranscriptions ==
  \A s \in Sessions : Transcriptions(s) = handledT[s]

C1_Witness ==
  \E s \in Sessions :
    /\ Quiet
    /\ handledT[s] = <<"b", "a">>
    /\ Transcriptions(s) = <<"b", "a">>

\* C2: the save is an unconditional overwrite (no version check): whatever
\* is stored under the key when a handler saves, the document afterwards is
\* the one that handler built from what it had loaded.  Two pause handlers
\* that both loaded before either saved therefore leave one ControlEvent.
C2_LastWriteWins ==
  [][\A h \in running :
       Set(h, FALSE) => store'[KeyOf(h)] = json_dumps(h.session_state)]_vars

C2_Witness ==
  /\ Quiet
  /\ handledC["s1"] = <<"pause", "pause">>
  /\ Len(Control("s1:aof-service")) = 1
  /\ Control("s1:aof-service")[1].action = "pause"

\* C3 as stated: whatever the step, the `transcriptions` stored under every
\* key before it are a prefix of those stored after it.
C3_AppendOnly ==
  [][\A k \in Keys :
       IsPrefix(Transcriptions(k), TranscriptionsIn(store', k))]_vars

\* C3 amended: the stored `transcriptions` keep their entries, in order, in
\* every step but the save of a handler whose loaded document is no longer
\* (or never was) the stored one: its read failed, or another handler saved
\* the key after it had loaded.
C3_AppendOnlyWhenCurrent ==
  [][\A k \in Keys :
       \/ IsPrefix(Transcriptions(k), TranscriptionsIn(store', k))
       \/ \E h \in running, fails \in BOOLEAN :
            Set(h, fails) /\ KeyOf(h) = k /\ h.loaded # Doc(k)]_vars

C3_Witness ==
  \E h \in running :
    /\ h.kind = "transcription" /\ h.pc = "publish" /\ h.getOk
    /\ Len(h.loaded.transcriptions) = 1
    /\ Transcriptions(KeyOf(h)) = h.session_state.transcriptions

Actions(control) == [n \in 1..Len(control) |-> control[n].action]

RECURSIVE IsSubseq(_, _)
IsSubseq(a, b) ==
  IF a = <<>> THEN TRUE
  ELSE IF b = <<>> THEN FALSE
  ELSE IF Head(a) = Head(b) THEN IsSubseq(Tail(a), Tail(b))
  ELSE IsSubseq(a, Tail(b))

\* the handler that h has become after a step
After(h) == {g \in running' : g.inst = h.inst /\ g.kind = h.kind}

\* C4 as stated: the actions of the `control` stored under
\* sessionId:aof-service are the commands processed for the session, one
\* entry for each, in processing order.
C4_ControlIsCommandsProcessed ==
  \A s \in Sessions : Actions(Control(unique_session_id(s))) = handledC[s]

\* C4 amended: the `control` stored under sessionId:aof-service holds, in
\* processing order, some of the commands processed for the session, each at
\* most once; a command whose handler saves while the document it loaded is
\* still the stored one adds exactly its own entry at the end (so the length
\* is the number processed when the handlers of the key do not overlap).
C4_ControlWithinCommandsProcessed ==
  [][/\ \A s \in Sessions :
          IsSubseq(Actions(ControlIn(store', unique_session_id(s))), handledC'[s])
     /\ \A h \in running :
          (h.kind \in Commands /\ Set(h, FALSE) /\ h.loaded = Doc(KeyOf(h)))
            => /\ ControlIn(store', KeyOf(h)) =
                    Append(Control(KeyOf(h)),
                           session_control(h.data, h.kind, h.timestamp))
               /\ handledC'[h.data.sessionId] =
                    Append(handledC[h.data.sessionId], h.kind)]_vars

C4_Witness ==
  /\ Quiet
  /\ handledC["s1"] = <<"stop", "start">>
  /\ Actions(Control("s1:aof-service")) = <<"stop", "start">>

\* C5: a start handler loads the document stored under
\* sessionId:aof-service, and when it has saved, the `control` stored there
\* is the loaded one with one entry more, whose action is "start".
C5_StartAppendsOne ==
  [][\A h \in running :
       h.kind = "start" =>
         /\ Get(h, FALSE) =>
              \A g \in After(h) :
                g.loaded = Doc(unique_session_id(h.data.sessionId))
         /\ Set(h, FALSE) =>
              LET before == dict_get(h.loaded, "control", <<>>)
                  after == ControlIn(store', unique_session_id(h.data.sessionId))
              IN /\ Len(after) = Len(before) + 1
                 /\ SubSeq(after, 1, Len(before)) = before
                 /\ after[Len(after)].action = "start"]_vars

C5_Witness ==
  \E k \in Keys :
    /\ Quiet
    /\ Len(Control(k)) = 2
    /\ Control(k)[1].action = "pause"
    /\ Control(k)[2].action = "start"

\* C6: a stop is recorded whatever the document already holds: the saved
\* `control` is the loaded one plus the stop's ControlEvent, also when the
\* loaded one ends with the ControlEvent of the same message, and the saved
\* document differs from the loaded one.
NumStops(control) == Cardinality({n \in 1..Len(control) : control[n].action = "stop"})

C6_StopNotIdempotent ==
  [][\A h \in running :
       (h.kind = "stop" /\ Set(h, FALSE)) =>
          LET before == dict_get(h.loaded, "control", <<>>)
              after == ControlIn(store', KeyOf(h))
          IN /\ after = Append(before, session_control(h.data, "stop", h.timestamp))
             /\ NumStops(after) = NumStops(before) + 1
             /\ DocIn(store', KeyOf(h)) # h.loaded]_vars

C6_Witness ==
  \E s \in Sessions :
    LET c == Control(unique_session_id(s)) IN
    /\ Quiet
    /\ handledC[s] = <<"stop", "stop">>
    /\ Len(c) = 2
    /\ \A n \in 1..2 :
         c[n].action = "stop" /\ c[n].sessionId = s /\ c[n].reason = Null

\* C7: the delivery of a malformed message (no JSON, no JSON object, an
\* object without sessionId or with an empty one) ends its handler at once:
\* nothing is stored, nothing is published, no handler of it stays suspended
\* (so none saves or publishes later) and the message counts as ended.
EndedTotal(e) == e.error + e.discarded + e.processed

C7_MalformedDiscarded ==
  [][Delivered < MaxMsgs =>
     \A i \in Instances, k \in Kinds : \A msg \in Malformed :
       (IF k \in Commands THEN process_command(i, k, msg)
        ELSE process_transcription(i, msg))
         => /\ store' = store
            /\ published' = published
            /\ running' = running
            /\ ended'.processed = ended.processed
            /\ EndedTotal(ended') = EndedTotal(ended) + 1]_vars

C7_Witness ==
  /\ ended.error = 1
  /\ ended.discarded = 1
  /\ Quiet
  /\ \A k \in Keys : store[k] = Nil
  /\ published = <<>>

\* C8: a load of a key that holds nothing, and a load whose Redis call
\* fails, both give the handler the empty document and let it go on to the
\* save; neither ends the handler with an error.
C8_MissingOrFailedReadIsEmpty ==
  [][\A h \in running, fails \in BOOLEAN :
       (Get(h, fails) /\ (fails \/ store[KeyOf(h)] = Nil))
         => /\ After(h) # {}
            /\ \A g \in After(h) : g.pc = "set" /\ g.loaded = EmptyDoc
            /\ ended' = ended]_vars

C8_Witness ==
  \E h \in running :
    /\ h.pc = "set" /\ ~h.getOk /\ h.loaded = EmptyDoc
    /\ store[KeyOf(h)] # Nil

\* C9: a command handler for session s loads from, and saves to, the key
\* s:aof-service only, and a transcription handler for s the key s only:
\* every other key keeps its value in every step of the handler.
ClaimedKey(h) ==
  IF h.kind = "transcription" THEN h.data.sessionId
  ELSE h.data.sessionId \o ":aof-service"

C9_OwnKeyOnly ==
  [][/\ \A k \in Keys :
          store'[k] # store[k] =>
            \E h \in running :
              h.pc = "set" /\ ClaimedKey(h) = k /\ store'[k] = json_dumps(h.session_state)
     /\ \A h \in running :
          /\ Get(h, FALSE) => \A g \in After(h) : g.loaded = Doc(ClaimedKey(h))
          /\ (h.kind \in Commands /\ (Set(h, TRUE) \/ Set(h, FALSE))) =>
               store'[h.data.sessionId] = store[h.data.sessionId]
          /\ (h.kind = "transcription" /\ (Set(h, TRUE) \/ Set(h, FALSE))) =>
               store'[h.data.sessionId \o ":aof-service"] =
                 store[h.data.sessionId \o ":aof-service"]]_vars

C9_Witness ==
  /\ Quiet
  /\ handledT["s1"] # <<>> /\ handledC["s1"] # <<>>
  /\ Doc("s1").keys = {"transcriptions"}
  /\ "transcriptions" \notin Doc("s1:aof-service").keys
  /\ "control" \in Doc("s1:aof-service").keys

\* C10: no exception leaves a callback: a payload that cannot be parsed and
\* a failing get, set or publish leave `escaped` false; a handler that had a
\* failure goes on to its next step or ends, and a handler that ends is not
\* started again (the count of delivered messages stays).
C10_NothingEscapes ==
  [][/\ ~escaped'
     /\ \A h \in running :
          h \notin running' =>
            \/ \E g \in After(h) :
                 /\ g.data = h.data
                 /\ <<h.pc, g.pc>> \in {<<"get", "set">>, <<"set", "publish">>}
                 /\ ended' = ended
            \/ /\ After(h) = {}
               /\ EndedTotal(ended') = EndedTotal(ended) + 1
               /\ Cardinality(running') = Cardinality(running) - 1]_vars

C10_Witness ==
  /\ ~escaped
  /\ ended.error = 1
  /\ \E h \in running :
       h.pc = "publish" /\ ~h.getOk /\ store[KeyOf(h)] = Nil

\* C11: a publish on aof.word.highlighted that fails (nc.publish or nc.flush
\* raises) is swallowed: the handler ends as processed, not as an error, it
\* is not run again, nothing escapes the callback, and the store keeps what
\* it held, so the transcript the handler saved stays in the document.
C11_PublishFailureSwallowed ==
  [][\A h \in running : \A o \in PublishOutcomes \ {"ok"} :
       Publish(h, o) =>
         /\ store' = store
         /\ handledT' = handledT
         /\ ~escaped'
         /\ ended' = [ended EXCEPT !.processed = @ + 1]
         /\ After(h) = {}
         /\ running' = running \ {h}
         /\ (o = "publish_raises") => (published' = published)]_vars

C11_Witness ==
  /\ Quiet
  /\ published = <<>>
  /\ ended = [error |-> 0, discarded |-> 0, processed |-> 1]
  /\ handledT["s1"] = <<"a">>
  /\ Transcriptions("s1") = <<"a">>

\* C12: NATSClient.connect never gives up: a failed attempt is counted and
\* followed by a wait of the fixed interval and then by a new attempt; the
\* loop is left only by an attempt that succeeded (client connected) or by
\* the operator's interrupt; while it runs, the instance holds no
\* subscription and runs no handler; and if from some time on the bus is
\* reachable and the operator does not interrupt, connect returns.
InConnect(i) == main[i] \in {"connect", "sleep"}

C12_ConnectRetries ==
  /\ [][\A i \in Launched :
          /\ (connect(i) /\ ~bus.up) =>
               /\ main'[i] = "sleep"
               /\ nc'[i] = [state |-> "disconnected",
                            retries |-> nc[i].retries + 1,
                            slept |-> RetryInterval]
          /\ sleep(i) => main'[i] = "connect"
          /\ InConnect(i) =>
               main'[i] \in {"connect", "sleep", "subscribe", "shutdown"}
          /\ (InConnect(i) /\ main'[i] = "subscribe") =>
               /\ connect(i) /\ bus.up
               /\ nc'[i].state = "connected"]_vars
  /\ [](\A i \in Launched :
          InConnect(i) =>
            /\ SubsOf(i) = {}
            /\ nc[i].state = "disconnected"
            /\ \A h \in running : h.inst # i)
  /\ \A i \in Launched :
       <>[](bus.up /\ InTry(i)) => <>(nc[i].state = "connected")

C12_Witness ==
  \E i \in Launched :
    /\ nc[i].retries >= 2
    /\ nc[i].slept = RetryInterval
    /\ nc[i].state = "connected"
    /\ main[i] = "run"

\* C13: an instance subscribes only from subscribe_to_events, after its
\* store client exists and its bus client has been connected, once for each
\* of the five subjects; losing and regaining the connection adds and removes
\* no subscription; and a handler runs only on an instance whose connection
\* has been established.
HasConnected(i) == nc[i].state # "disconnected"

C13_SubscribedOnce ==
  [][/\ \A sub \in subs' \ subs :
          /\ subscribe(sub.inst)
          /\ HasConnected(sub.inst)
          /\ redis_client[sub.inst] # "None"
          /\ \A old \in subs : old.inst = sub.inst => old.subject # sub.subject
     /\ \A i \in Launched : (disconnected(i) \/ reconnected(i)) => subs' = subs
     /\ \A i \in Launched :
          /\ Cardinality({sub.subject : sub \in {x \in subs' : x.inst = i}})
               = Cardinality({x \in subs' : x.inst = i})
          /\ main'[i] = "run" => {x \in subs' : x.inst = i} = subscribe_to_events(i)
     /\ \A h \in running' :
          /\ nc'[h.inst].state # "disconnected"
          /\ redis_client'[h.inst] # "None"]_vars

C13_Witness ==
  \E i \in Launched :
    /\ main[i] = "run"
    /\ nc[i].state = "reconnecting"
    /\ nc[i].retries >= 1
    /\ SubsOf(i) = subscribe_to_events(i)
    /\ \E h \in running : h.inst = i

\* C14: a message published on one of the five subjects goes to exactly one
\* instance, and there to the callback of that subject: the publication
\* makes one delivery, every handler that starts is the callback bound to the
\* subject of the delivery it takes, and each message published is either
\* waiting once or has been handled once.
KindOf(subject) == CHOOSE k \in Kinds : Subject(k) = subject

C14_OneInstancePerMessage ==
  [][/\ \A k \in Kinds : \A msg \in LifeMessages(k) :
          bus_publish(Subject(k), msg) =>
            LET new == bus'.pending \ bus.pending IN
              /\ Cardinality(new) = 1
              /\ \A d \in new : d.cb = k /\ d.subject = Subject(k) /\ d.msg = msg
     /\ \A h \in running' \ running :
          h.pc = "get" =>
            \E d \in bus.pending \ bus'.pending :
              /\ bus.pending \ bus'.pending = {d}
              /\ h.inst = d.inst
              /\ h.kind = KindOf(d.subject)
              /\ h.data = d.msg.obj
     /\ \A id \in 1..bus'.sent :
          Cardinality({d \in bus'.pending : d.id = id}) <= 1
     /\ Cardinality(bus'.pending)
          + ended'.error + ended'.discarded + ended'.processed
          + Cardinality(running') = bus'.sent]_vars

C14_Witness ==
  /\ bus.sent = 2
  /\ bus.pending = {}
  /\ \E h1 \in running, h2 \in running :
       h1.inst # h2.inst /\ h1.kind = h2.kind /\ h1.kind = "pause"

\* C15: a handler that was started before the shutdown began saves with the
\* store client still open, and no handler is started once the drain has
\* begun.
C15_InFlightSaveOnOpenStore ==
  [][/\ \A h \in running, fails \in BOOLEAN :
          (Set(h, fails) /\ h.started \in {"subscribe", "run"})
            => redis_client[h.inst] = "open"
     /\ \A h \in running' \ running :
          h.pc = "get" => nc[h.inst].state \notin {"draining", "closed"}]_vars

\* C16: once the operator's interrupt has been caught, the main program
\* reaches its end ("AOF Service stopped.").
C16_EventuallyStopped ==
  \A i \in Launched : (main[i] = "shutdown") ~> (main[i] = "stopped")

\* C17: a handler goes from the load to the save, and a transcription
\* handler from the save to its one call of the publisher, after which it
\* ends (whatever the load and the save did); a command handler ends with
\* its save and never publishes.  A message appears on aof.word.highlighted
\* only by the publish step of a transcription handler: one message, with
\* the sessionId and the transcript of that handler's event, and it does
\* appear unless nc.publish raised.
C17_GetSetPublish ==
  [][/\ \A h \in running :
          /\ h.kind \in Commands => h.pc \in {"get", "set"}
          /\ h \notin running' =>
               \/ \E g \in After(h) :
                    /\ g.data = h.data
                    /\ \/ h.pc = "get" /\ g.pc = "set"
                       \/ h.pc = "set" /\ g.pc = "publish"
                          /\ h.kind = "transcription"
                    /\ published' = published
               \/ /\ After(h) = {}
                  /\ h.pc = IF h.kind \in Commands THEN "set" ELSE "publish"
          /\ \A o \in PublishOutcomes :
               Publish(h, o) =>
                 /\ h.kind = "transcription"
                 /\ After(h) = {}
                 /\ Len(published') =
                      Len(published) + (IF o = "publish_raises" THEN 0 ELSE 1)
     /\ published' # published =>
          \E h \in running :
            /\ h.kind = "transcription" /\ h.pc = "publish"
            /\ h \notin running'
            /\ Len(published') = Len(published) + 1
            /\ SubSeq(published', 1, Len(published)) = published
            /\ published'[Len(published')].sessionId = h.data.sessionId
            /\ published'[Len(published')].highlightedWord = h.data.transcript
     /\ store' # store => \E h \in running : h.pc = "set" /\ h \notin running'
    ]_vars

C17_Witness ==
  /\ Quiet
  /\ handledC["s1"] # <<>>
  /\ handledT["s1"] = <<"b">>
  /\ Len(published) = 1
  /\ published[1].sessionId = "s1"
  /\ published[1].highlightedWord = "b"

\* C18: with a single instance writing, the timestamps of the `control`
\* entries of every stored document do not decrease along the sequence.
C18_TimestampsAscend ==
  \A k \in Keys :
    \A m \in 1..Len(Control(k)), n \in 1..Len(Control(k)) :
      m < n => Control(k)[m].timestamp <= Control(k)[n].timestamp

InitiationFields ==
  {"sessionId", "patientDID", "clinicianDID", "clinicName", "startTime",
   "audioConfig", "transcriptPreferences"}

\* field f is the same in documents a and b: present in both or in neither,
\* with the same value
SameField(a, b, f) == a[f] = b[f] /\ (f \in a.keys <=> f \in b.keys)

\* C19: the document a pause or resume handler builds, and then saves, is
\* the loaded one with one ControlEvent (of that action, with the handler's
\* timestamp) appended to `control` and nothing else changed; a stop handler
\* also sets `endTime` to its timestamp and changes nothing else.  The
\* initiation fields, `transcriptions` and the earlier `control` entries stay.
C19_OnlyControlAndEndTime ==
  [][\A h \in running :
       h.kind \in {"pause", "resume", "stop"} =>
         /\ \A fails \in BOOLEAN :
              Get(h, fails) =>
                \A g \in After(h) :
                  LET before == dict_get(g.loaded, "control", <<>>)
                      after == g.session_state.control
                  IN /\ \A f \in InitiationFields \cup {"transcriptions"} :
                          SameField(g.session_state, g.loaded, f)
                     /\ "control" \in g.session_state.keys
                     /\ Len(after) = Len(before) + 1
                     /\ SubSeq(after, 1, Len(before)) = before
                     /\ after[Len(after)] =
                          [sessionId |-> h.data.sessionId, action |-> h.kind,
                           timestamp |-> h.timestamp,
                           reason |-> dict_get(h.data, "reason", Null)]
                     /\ IF h.kind = "stop"
                          THEN /\ "endTime" \in g.session_state.keys
                               /\ g.session_state.endTime = h.timestamp
                          ELSE SameField(g.session_state, g.loaded, "endTime")
         /\ Set(h, FALSE) => DocIn(store', KeyOf(h)) = h.session_state]_vars

C19_Witness ==
  \E k \in Keys :
    /\ Quiet
    /\ Actions(Control(k)) = <<"start", "stop">>
    /\ Doc(k).patientDID = "p1"
    /\ Doc(k).audioConfig = "cfg"
    /\ "endTime" \in Doc(k).keys
    /\ Doc(k).endTime = Control(k)[2].timestamp

\* C20: the document a start handler builds, and then saves, is the loaded
\* one with the initiation fields set: sessionId, patientDID, clinicianDID and
\* clinicName to the payload's values (null for a field the payload lacks),
\* startTime to the payload's when the payload has the key and to the
\* handler's timestamp when it has not, audioConfig and transcriptPreferences
\* to the payload's or to {}; `endTime`, `transcriptions` and the earlier
\* `control` entries are those of the loaded document.
C20_StartMerges ==
  [][\A h \in running :
       h.kind = "start" =>
         /\ \A fails \in BOOLEAN :
              Get(h, fails) =>
                \A g \in After(h) :
                  LET doc == g.session_state
                      before == dict_get(g.loaded, "control", <<>>)
                  IN /\ InitiationFields \subseteq doc.keys
                     /\ doc.sessionId = h.data.sessionId
                     /\ \A f \in {"patientDID", "clinicianDID", "clinicName"} :
                          doc[f] = IF f \in h.data.keys THEN h.data[f] ELSE Null
                     /\ doc.startTime =
                          IF "startTime" \in h.data.keys THEN h.data.startTime
                          ELSE h.timestamp
                     /\ \A f \in {"audioConfig", "transcriptPreferences"} :
                          doc[f] = IF f \in h.data.keys THEN h.data[f] ELSE "{}"
                     /\ SameField(doc, g.loaded, "endTime")
                     /\ SameField(doc, g.loaded, "transcriptions")
                     /\ SubSeq(doc.control, 1, Len(before)) = before
                     /\ Len(doc.control) = Len(before) + 1
         /\ Set(h, FALSE) => DocIn(store', KeyOf(h)) = h.session_state]_vars

C20_Witness ==
  \E k \in Keys :
    /\ Quiet
    /\ Actions(Control(k)) = <<"stop", "start">>
    /\ "endTime" \in Doc(k).keys
    /\ Doc(k).endTime = Control(k)[1].timestamp
    /\ Doc(k).patientDID = "p1"
    /\ Doc(k).startTime = 0
    /\ Doc(k).transcriptPreferences = "prefs"

\* the keys command handlers write
CommandKeys == {unique_session_id(s) : s \in Sessions}

\* the timestamps of the stop entries of a control sequence, in order
StopTimes(control) ==
  LET stops == {n \in 1..Len(control) : control[n].action = "stop"}
  IN IF stops = {} THEN <<>>
     ELSE <<control[CHOOSE n \in stops : \A m \in stops : m <= n].timestamp>>

\* `endTime` of doc goes with its `control`: present exactly when `control`
\* has a stop entry, and then the timestamp of the last one
EndTimeFollowsStop(doc) ==
  LET last == StopTimes(dict_get(doc, "control", <<>>))
  IN /\ "endTime" \in doc.keys <=> last # <<>>
     /\ "endTime" \in doc.keys => doc.endTime = last[1]

\* C21 as stated: in every document stored under a command key `endTime` is
\* present exactly when `control` has a stop entry and is the timestamp of
\* the last one, and no save of a start, pause or resume handler clears or
\* changes the `endTime` that is stored.
C21_EndTimeOnlyByStop ==
  /\ [](\A k \in CommandKeys : EndTimeFollowsStop(Doc(k)))
  /\ [][\A h \in running :
          (h.kind \in {"start", "pause", "resume"} /\ Set(h, FALSE))
            => SameField(DocIn(store', KeyOf(h)), Doc(KeyOf(h)), "endTime")]_vars

\* C21 amended: in every document stored under a command key `endTime` is
\* present exactly when `control` has a stop entry and is the timestamp of
\* the last one; a start, pause or resume handler builds a document with the
\* `endTime` of the document it loaded, so its save leaves the stored
\* `endTime` as it is when the loaded document is still the stored one.  (A
\* save of a document loaded earlier, or built on {} after a failed read,
\* replaces `endTime` together with `control`.)
C21_EndTimeFollowsStop ==
  /\ [](\A k \in CommandKeys : EndTimeFollowsStop(Doc(k)))
  /\ [][\A h \in running :
          h.kind \in {"start", "pause", "resume"} =>
            /\ \A fails \in BOOLEAN :
                 Get(h, fails) =>
                   \A g \in After(h) :
                     SameField(g.session_state, g.loaded, "endTime")
            /\ (Set(h, FALSE) /\ h.loaded = Doc(KeyOf(h)))
                 => SameField(DocIn(store', KeyOf(h)), Doc(KeyOf(h)), "endTime")]_vars

C21_Witness ==
  \E k \in CommandKeys :
    /\ Quiet
    /\ Actions(Control(k)) = <<"stop", "resume">>
    /\ "endTime" \in Doc(k).keys
    /\ Doc(k).endTime = Control(k)[1].timestamp
    /\ Doc(k).endTime < Control(k)[2].timestamp

\* C22: a transcription handler goes on to its publish attempt whether its
\* load and its save succeeded or failed: a failed load leaves it at the save,
\* a failed save (which changes nothing in the store) leaves it at the
\* publish, and the publish step sends the event's sessionId and transcript
\* without looking at the store, after which the handler is gone (one
\* attempt).  So a message on aof.word.highlighted does not tell that its
\* transcript is stored.
C22_PublishWithoutPersist ==
  [][\A h \in running :
       h.kind = "transcription" =>
         /\ \A fails \in BOOLEAN :
              /\ Get(h, fails) =>
                   /\ After(h) # {}
                   /\ \A g \in After(h) : g.pc = "set" /\ g.data = h.data
              /\ Set(h, fails) =>
                   /\ After(h) # {}
                   /\ \A g \in After(h) : g.pc = "publish" /\ g.data = h.data
                   /\ fails => store' = store
                   /\ ended' = ended
                   /\ published' = published
         /\ \A o \in PublishOutcomes :
              Publish(h, o) =>
                /\ After(h) = {}
                /\ store' = store
                /\ o # "publish_raises" =>
                     /\ Len(published') = Len(published) + 1
                     /\ published'[Len(published')].sessionId = h.data.sessionId
                     /\ published'[Len(published')].highlightedWord =
                          h.data.transcript]_vars

\* a highlighted-word message is out and its transcript was never stored
C22_Witness ==
  /\ Quiet
  /\ Len(published) = 1
  /\ published[1].sessionId = "s1"
  /\ published[1].highlightedWord = "a"
  /\ handledT["s1"] = <<>>
  /\ store["s1"] = Nil
  /\ ended = [error |-> 0, discarded |-> 0, processed |-> 1]

\* C23: the key a command handler writes for session a is never the key a
\* transcription handler writes for session b, whatever the two non-empty
\* session ids: no transcription handler saves to a key that holds a
\* command-derived document (one with `control`).
C23_NoKeyCollision ==
  [][\A h \in running :
       (h.kind = "transcription" /\ Set(h, FALSE))
         => "control" \notin Doc(KeyOf(h)).keys]_vars

\* C24: handlers of different sessions do not interfere: the save of a
\* handler of an event for session A leaves the documents stored under B and
\* under B:aof-service as they are, for every other session B.
C24_SessionsIndependent ==
  [][\A h \in running :
       Set(h, FALSE) =>
         \A B \in Sessions \ {h.data.sessionId} :
           /\ store'[B] = store[B]
           /\ store'[unique_session_id(B)] = store[unique_session_id(B)]]_vars

====
